---------------------------- MODULE Spec2Model ----------------------------
(***************************************************************************)
(* Chess Academy: the App component (src/App.tsx, two variants of the      *)
(* component are kept in the file) and the advice client                   *)
(* (src/services/geminiService.ts, two variants as well).                  *)
(*                                                                         *)
(* The rules engine (chess.js) is an external library.  It is modelled     *)
(* here by what the App asks of it: construction, fen()/new Chess(fen),    *)
(* move(), undo(), history(), moves({square}), get(), turn(), board().     *)
(* Castling and en passant are left out: no input of MoveInputs /          *)
(* ClickSquares can bring about a position in which either is available.   *)
(***************************************************************************)
EXTENDS Integers, Sequences, FiniteSets, TLC

(***************************************************************************)
(* Squares.  A square is named as in the code ('a1' .. 'h8'); the engine   *)
(* works on indices 0..63, index = 8 * rank + file.                        *)
(***************************************************************************)
FileNames == <<"a", "b", "c", "d", "e", "f", "g", "h">>

RankNames == <<"1", "2", "3", "4", "5", "6", "7", "8">>

Idx == 0 .. 63

FileOf(s) == s % 8

RankOf(s) == s \div 8

SqName(s) == FileNames[FileOf(s) + 1] \o RankNames[RankOf(s) + 1]

Squares == {SqName(s) : s \in Idx}

SqIndex == [n \in Squares |-> CHOOSE s \in Idx : SqName(s) = n]

(***************************************************************************)
(* Pieces (types.ts: Piece, PieceType, Color).  NoPiece stands for the     *)
(* null that board() and get() give for an empty square.                   *)
(***************************************************************************)
PieceTypes == {"p", "n", "b", "r", "q", "k"}

Colors == {"w", "b"}

Piece(t, c) == [type |-> t, color |-> c]

NoPiece == [type |-> "none", color |-> "none"]

Other(c) == IF c = "w" THEN "b" ELSE "w"

BackRank == <<"r", "n", "b", "q", "k", "b", "n", "r">>

StartBoard ==
  [s \in Idx |->
     IF RankOf(s) = 0 THEN Piece(BackRank[FileOf(s) + 1], "w")
     ELSE IF RankOf(s) = 1 THEN Piece("p", "w")
     ELSE IF RankOf(s) = 6 THEN Piece("p", "b")
     ELSE IF RankOf(s) = 7 THEN Piece(BackRank[FileOf(s) + 1], "b")
     ELSE NoPiece]

(***************************************************************************)
(* Move geometry.                                                          *)
(***************************************************************************)
OnBoard(f, r) == f \in 0 .. 7 /\ r \in 0 .. 7

Dirs == <<<<1, 0>>, <<-1, 0>>, <<0, 1>>, <<0, -1>>,
          <<1, 1>>, <<1, -1>>, <<-1, 1>>, <<-1, -1>>>>

RookDirs == {1, 2, 3, 4}

BishopDirs == {5, 6, 7, 8}

KnightJumps == {<<1, 2>>, <<2, 1>>, <<2, -1>>, <<1, -2>>,
                <<-1, -2>>, <<-2, -1>>, <<-2, 1>>, <<-1, 2>>}

Offsets(s, deltas) ==
  {8 * (RankOf(s) + d[2]) + FileOf(s) + d[1] :
     d \in {e \in deltas : OnBoard(FileOf(s) + e[1], RankOf(s) + e[2])}}

Rays ==
  [s \in Idx |->
     [d \in 1 .. 8 |->
        LET n == Cardinality({i \in 1 .. 7 :
                   OnBoard(FileOf(s) + i * Dirs[d][1], RankOf(s) + i * Dirs[d][2])})
        IN  [i \in 1 .. n |-> s + i * (8 * Dirs[d][2] + Dirs[d][1])]]]

KnightTargets == [s \in Idx |-> Offsets(s, KnightJumps)]

KingTargets == [s \in Idx |-> Offsets(s, {Dirs[d] : d \in 1 .. 8})]

Forward(c) == IF c = "w" THEN 1 ELSE -1

PawnAttackTable ==
  [c \in Colors |->
     [s \in Idx |-> Offsets(s, {<<1, Forward(c)>>, <<-1, Forward(c)>>})]]

PawnAttacks(s, c) == PawnAttackTable[c][s]

SlideTargets(board, s, dirs) ==
  UNION {LET ray == Rays[s][d]
         IN  {ray[i] : i \in {k \in 1 .. Len(ray) :
                                \A j \in 1 .. (k - 1) : board[ray[j]] = NoPiece}}
         : d \in dirs}

\* The squares the piece on s attacks (own pieces included: they are defended).
Attacks(board, s) ==
  LET p == board[s]
  IN  CASE p.type = "p" -> PawnAttacks(s, p.color)
        [] p.type = "n" -> KnightTargets[s]
        [] p.type = "k" -> KingTargets[s]
        [] p.type = "r" -> SlideTargets(board, s, RookDirs)
        [] p.type = "b" -> SlideTargets(board, s, BishopDirs)
        [] p.type = "q" -> SlideTargets(board, s, RookDirs \cup BishopDirs)
        [] OTHER -> {}

PawnPushes(board, s, c) ==
  LET one == s + 8 * Forward(c)
      two == s + 16 * Forward(c)
      home == IF c = "w" THEN 1 ELSE 6
  IN  IF one \notin Idx \/ board[one] # NoPiece THEN {}
      ELSE IF RankOf(s) = home /\ board[two] = NoPiece THEN {one, two}
      ELSE {one}

\* Destinations by the piece's movement alone (check is not yet considered).
PseudoTargets(board, s) ==
  LET p == board[s]
  IN  IF p = NoPiece THEN {}
      ELSE IF p.type = "p"
        THEN PawnPushes(board, s, p.color)
             \cup {t \in PawnAttacks(s, p.color) : board[t].color = Other(p.color)}
        ELSE {t \in Attacks(board, s) : board[t].color # p.color}

\* The first occupied square along a ray, -1 when the ray is clear.
FirstOnRay(board, ray) ==
  LET occ == {i \in 1 .. Len(ray) : board[ray[i]] # NoPiece}
  IN  IF occ = {} THEN -1
      ELSE ray[CHOOSE i \in occ : \A j \in occ : i <= j]

\* Whether a piece of colour by attacks square t, looked up from t.
IsAttacked(board, t, by) ==
  \/ LET knight == Piece("n", by) IN \E s \in KnightTargets[t] : board[s] = knight
  \/ LET king == Piece("k", by) IN \E s \in KingTargets[t] : board[s] = king
  \/ LET pawn == Piece("p", by) IN \E s \in PawnAttacks(t, Other(by)) : board[s] = pawn
  \/ \E d \in 1 .. 8 : \E f \in {FirstOnRay(board, Rays[t][d])} :
       /\ f # -1
       /\ board[f].color = by
       /\ board[f].type \in (IF d \in RookDirs THEN {"r", "q"} ELSE {"b", "q"})

KingSquare(board, c) == LET king == Piece("k", c) IN CHOOSE s \in Idx : board[s] = king

InCheck(board, c) ==
  \E king \in {KingSquare(board, c)} : IsAttacked(board, king, Other(c))

\* The board after the piece on from goes to to; a pawn reaching the last
\* rank becomes the promotion piece.
ApplyMove(board, from, to, promotion) ==
  LET p == board[from]
      placed == IF p.type = "p" /\ RankOf(to) \in {0, 7}
                  THEN Piece(promotion, p.color) ELSE p
  IN  [board EXCEPT ![from] = NoPiece, ![to] = placed]

\* Whether the side to move may take the piece on s to t.
IsLegal(board, turn, s, t) ==
  /\ board[s].color = turn
  /\ t \in PseudoTargets(board, s)
  /\ \E after \in {ApplyMove(board, s, t, "q")} : ~InCheck(after, turn)

\* Legal destinations of the piece on s for the side to move.
LegalTargets(board, turn, s) ==
  IF board[s].color # turn THEN {}
  ELSE {t \in PseudoTargets(board, s) : IsLegal(board, turn, s, t)}

HasLegalMove(board, turn) ==
  \E s \in Idx : LegalTargets(board, turn, s) # {}

(***************************************************************************)
(* Standard algebraic notation of a legal move, as move() reports it in    *)
(* result.san and history() lists it.                                      *)
(***************************************************************************)
PieceLetter(t) ==
  CASE t = "n" -> "N" [] t = "b" -> "B" [] t = "r" -> "R"
    [] t = "q" -> "Q" [] t = "k" -> "K" [] OTHER -> ""

Disambiguator(board, turn, from, to) ==
  LET p == board[from]
      rivals == {s \in Idx \ {from} :
                   board[s] = p /\ IsLegal(board, turn, s, to)}
  IN  IF p.type = "p" \/ rivals = {} THEN ""
      ELSE IF \A s \in rivals : FileOf(s) # FileOf(from)
        THEN FileNames[FileOf(from) + 1]
      ELSE IF \A s \in rivals : RankOf(s) # RankOf(from)
        THEN RankNames[RankOf(from) + 1]
      ELSE SqName(from)

San(board, turn, from, to, promotion) ==
  LET p == board[from]
      capture == board[to] # NoPiece
      head == IF p.type = "p"
                THEN (IF capture THEN FileNames[FileOf(from) + 1] ELSE "")
                ELSE PieceLetter(p.type) \o Disambiguator(board, turn, from, to)
      promo == IF p.type = "p" /\ RankOf(to) \in {0, 7}
                 THEN "=" \o PieceLetter(promotion) ELSE ""
      suffix == CHOOSE mark \in
                  {IF ~InCheck(after, Other(turn)) THEN ""
                   ELSE IF HasLegalMove(after, Other(turn)) THEN "+" ELSE "#" :
                   after \in {ApplyMove(board, from, to, promotion)}} : TRUE
  IN  head \o (IF capture THEN "x" ELSE "") \o SqName(to) \o promo \o suffix


(***************************************************************************)
(* The Chess object of chess.js, as far as the App uses it: a board, the   *)
(* side to move, and the moves made on THIS object (what history() lists   *)
(* and undo() takes back).  fen() serialises the position only, so an      *)
(* object built from a FEN starts with no moves of its own.                *)
(***************************************************************************)
NewChess == [board |-> StartBoard, turn |-> "w", history |-> <<>>]

Fen(g) == [board |-> g.board, turn |-> g.turn]

ChessFromFen(fen) == [board |-> fen.board, turn |-> fen.turn, history |-> <<>>]

StartFen == Fen(NewChess)

\* move({from, to, promotion}): ok with the SAN and the changed object, or
\* a rejection (null or an exception, by the library's version).
Move(g, moveData) ==
  CHOOSE result \in
    {IF IsLegal(board, g.turn, from, to)
       THEN CHOOSE made \in
              {[ok |-> TRUE, san |-> san,
                game |-> [board |-> ApplyMove(board, from, to, moveData.promotion),
                          turn |-> Other(g.turn),
                          history |-> Append(g.history,
                                        [san |-> san, board |-> board, turn |-> g.turn])]] :
               san \in {San(board, g.turn, from, to, moveData.promotion)}} : TRUE
       ELSE [ok |-> FALSE, san |-> "", game |-> g] :
     board \in {g.board}, from \in {SqIndex[moveData.from]},
     to \in {SqIndex[moveData.to]}} : TRUE

\* undo(): takes back the last move made on this object; nothing when none.
Undo(g) ==
  IF g.history = <<>> THEN g
  ELSE LET last == g.history[Len(g.history)]
       IN  [board |-> last.board, turn |-> last.turn,
            history |-> SubSeq(g.history, 1, Len(g.history) - 1)]

History(g) == [i \in 1 .. Len(g.history) |-> g.history[i].san]

\* moves({square, verbose: true}): the destinations (m.to) of the legal moves.
Moves(g, square) == {SqName(t) : t \in LegalTargets(g.board, g.turn, SqIndex[square])}

Get(g, square) == g.board[SqIndex[square]]

(***************************************************************************)
(* updateUIState / updateGameState: history and captured tallies.          *)
(***************************************************************************)
countPieces(board, color) ==
  CHOOSE counts \in
    {[t \in PieceTypes |-> Cardinality({s \in own : board[s].type = t})] :
     own \in {{s \in Idx : board[s].color = color}}} : TRUE

standard == [p |-> 8, r |-> 2, n |-> 2, b |-> 2, q |-> 1, k |-> 1]

\* Object.keys(standard), in insertion order.
standardKeys == <<"p", "r", "n", "b", "q", "k">>

\* The loop with i <= diff.
PushesOnceMore(type, diff) == [i \in 1 .. (diff + 1) |-> type]

\* for (let i = 0; i < diff; i++) caps.push(type): nothing when diff <= 0.
Pushes(type, diff) == [i \in 1 .. diff |-> type]

RECURSIVE CapsFrom(_, _)
CapsFrom(counts, k) ==
  IF k > Len(standardKeys) THEN <<>>
  ELSE Pushes(standardKeys[k], standard[standardKeys[k]] - counts[standardKeys[k]])
       \o CapsFrom(counts, k + 1)

getCaptured(counts) == CHOOSE caps \in {CapsFrom(c, 1) : c \in {counts}} : TRUE

updateUIState(currentGame) ==
  [moveHistory |-> History(currentGame),
   captured |-> [w |-> getCaptured(countPieces(currentGame.board, "w")),
                 b |-> getCaptured(countPieces(currentGame.board, "b"))]]

(***************************************************************************)
(* The advice client.  A reply text is a sequence of tokens; JSON.parse    *)
(* accepts null and objects of "name":"value" members.                     *)
(***************************************************************************)
JsNull == [kind |-> "null"]

JsObject(fields) == [kind |-> "object", fields |-> fields]

NoFields == [n \in {} |-> ""]

FieldToken ==
  [explanationT |-> <<"explanation", "Nice move!">>,
   evalGoodT |-> <<"evaluation", "good">>,
   evalOtherT |-> <<"evaluation", "great">>,
   suggestedT |-> <<"suggestedMove", "Nf3">>,
   funFactT |-> <<"funFact", "Knights jump.">>]

FieldTokens == DOMAIN FieldToken

WS == " "

\* String.prototype.trim(): leading and trailing whitespace removed.
RECURSIVE TrimLeft(_)
TrimLeft(t) == IF t # <<>> /\ Head(t) = WS THEN TrimLeft(Tail(t)) ELSE t

RECURSIVE TrimRight(_)
TrimRight(t) ==
  IF t # <<>> /\ t[Len(t)] = WS THEN TrimRight(SubSeq(t, 1, Len(t) - 1)) ELSE t

Trim(t) == TrimRight(TrimLeft(t))

\* Whitespace between JSON tokens is insignificant.
Significant(t) == SelectSeq(t, LAMBDA x : x # WS)

RECURSIVE Members(_, _)
Members(inner, k) ==
  IF k > Len(inner) THEN NoFields
  ELSE LET rest == Members(inner, k + 2)
           f == FieldToken[inner[k]]
       IN  IF f[1] \in DOMAIN rest THEN rest ELSE (f[1] :> f[2]) @@ rest

\* Members(inner, 1) keeps, for a repeated name, the value met first from the
\* right end: the last occurrence wins, as in JSON.parse.
JsonParse(text) ==
  LET t == Significant(text)
      n == Len(t)
      inner == SubSeq(t, 2, n - 1)
      wellFormed ==
        /\ n >= 2 /\ t[1] = "{" /\ t[n] = "}"
        /\ (Len(inner) = 0 \/ Len(inner) % 2 = 1)
        /\ \A i \in 1 .. Len(inner) :
             IF i % 2 = 1 THEN inner[i] \in FieldTokens ELSE inner[i] = ","
  IN  IF t = <<"null">> THEN [ok |-> TRUE, value |-> JsNull]
      ELSE IF wellFormed THEN [ok |-> TRUE, value |-> JsObject(Members(inner, 1))]
      ELSE [ok |-> FALSE, value |-> JsNull]

Fallback ==
  JsObject([explanation |->
              "I'm thinking hard about the board! Keep playing while I analyze.",
            evaluation |-> "neutral"])

Resolved(v) == [settled |-> "resolved", value |-> v]

Rejected == [settled |-> "rejected", value |-> JsNull]

\* A service outcome: the call rejects, or a response whose text is a token
\* sequence or is undefined.
Reject == [kind |-> "reject", defined |-> FALSE, text |-> <<>>]

Response(text) == [kind |-> "response", defined |-> TRUE, text |-> text]

ResponseNoText == [kind |-> "response", defined |-> FALSE, text |-> <<>>]

\* The first variant without its try / catch.
getCoachAdvice1NoCatch(outcome) ==
  IF outcome.kind = "reject" THEN Rejected
  ELSE LET text == IF ~outcome.defined \/ outcome.text = <<>>
                     THEN <<"{", "}">> ELSE outcome.text
           parsed == JsonParse(Trim(text))
       IN  IF parsed.ok THEN Resolved(parsed.value) ELSE Rejected

\* geminiService.ts, first variant: response.text || "{}".
getCoachAdvice1(outcome) ==
  IF outcome.kind = "reject" THEN Resolved(Fallback)
  ELSE LET text == IF ~outcome.defined \/ outcome.text = <<>>
                     THEN <<"{", "}">> ELSE outcome.text
           parsed == JsonParse(Trim(text))
       IN  IF parsed.ok THEN Resolved(parsed.value) ELSE Resolved(Fallback)

\* geminiService.ts, second variant: response.text.trim().
getCoachAdvice2(outcome) ==
  IF outcome.kind = "reject" THEN Resolved(Fallback)
  ELSE IF ~outcome.defined THEN Resolved(Fallback)
  ELSE LET parsed == JsonParse(Trim(outcome.text))
       IN  IF parsed.ok THEN Resolved(parsed.value) ELSE Resolved(Fallback)

getCoachAdvice(v, outcome) ==
  IF v = 1 THEN getCoachAdvice1(outcome) ELSE getCoachAdvice2(outcome)

(***************************************************************************)
(* Bounds of the exploration.                                              *)
(***************************************************************************)
\* Advice requests in flight at once: a move that would issue one more is
\* not explored.
MaxPending == 2

\* Whitespace tokens before and after a reply text.
MaxPad == 1

\* Members of a reply object.
MaxFields == 2

\* Drag-and-drop gestures tried in every state (origin, destination).
MoveInputs ==
  {<<"e2", "e4">>, <<"e4", "d5">>, <<"d5", "d6">>, <<"d6", "c7">>, <<"c7", "d8">>,
   <<"d7", "d5">>, <<"g8", "f6">>, <<"f6", "g8">>}

\* Squares clicked in every state.
ClickSquares == {"e2", "e4", "a1", "c7", "d8"}

\* What the advice service does with a request of the running App.
GoodText == <<"{", "explanationT", ",", "evalGoodT", "}">>

ServiceOutcomes == {Reject, Response(GoodText)}

(***************************************************************************)
(* State of the App component.                                             *)
(***************************************************************************)
VARIABLES
  version,          \* which variant of App.tsx / geminiService.ts is built
  game,             \* useState(new Chess())
  advice,           \* useState<CoachAdvice | null>(null)
  isCoachThinking,  \* useState(false)
  moveHistory,      \* useState<string[]>([])
  captured,         \* useState({ w: [], b: [] })
  moveFrom,         \* useState<string | null>(null)
  optionSquares,    \* useState<Record<string, any>>({})
  pending,          \* getCoachAdvice calls whose promise has not settled
  lastOp,           \* the handler that ran last, with what it returned and called
  coach             \* one getCoachAdvice call taken alone (SpecCoach)

vars == <<version, game, advice, isCoachThinking, moveHistory, captured,
          moveFrom, optionSquares, pending, lastOp, coach>>

appVars == <<version, game, advice, isCoachThinking, moveHistory, captured,
             moveFrom, optionSquares, pending, lastOp>>

NoSquare == "null"

NoSquares == [n \in {} |-> ""]

NoCaptures == [w |-> <<>>, b |-> <<>>]

Op(name) ==
  [op |-> name, origin |-> "none", from |-> "none", square |-> "none", ret |-> FALSE,
   escaped |-> FALSE, calls |-> <<>>,
   prior |-> <<>>, atStart |-> FALSE, stale |-> FALSE, old |-> FALSE, wrote |-> FALSE]

CoachIdle == [pc |-> "idle", outcome |-> Reject, result |-> <<>>]

Init ==
  /\ version \in {1, 2}
  /\ game = NewChess
  /\ advice = JsNull
  /\ isCoachThinking = FALSE
  /\ moveHistory = <<>>
  /\ captured = NoCaptures
  /\ moveFrom = NoSquare
  /\ optionSquares = NoSquares
  /\ pending = <<>>
  /\ lastOp = Op("init")
  /\ coach = CoachIdle

(***************************************************************************)
(* makeMove / makeAMove: what one call does to the state, as a record.     *)
(* move() signals a rejection by an exception or by null, by the version   *)
(* of the library; the exception is caught, null falls through, and both   *)
(* end in return false.                                                    *)
(***************************************************************************)
MoveRejections == {"null", "throws"}

Gestures == {"onDrop", "onSquareClick"}

\* try { ... gameCopy.move(moveData) ... } catch (e) { }
moveInsideTry == TRUE

\* makeMove with setGame / updateUIState called before result is looked at.
makeMoveCommitsFirst(moveData) ==
  CHOOSE effect \in
    {[ret |-> result.ok, escaped |-> FALSE,
      game |-> result.game,
      ui |-> updateUIState(result.game),
      calls |-> IF result.ok
                  THEN <<[fen |-> Fen(result.game), lastMove |-> result.san,
                          turn |-> result.game.turn]>>
                  ELSE <<>>] :
     result \in {Move(ChessFromFen(Fen(game)), moveData)}} : TRUE

\* makeMove asking the coach about game (the position before the move).
makeMoveAsksAboutOldPosition(moveData) ==
  CHOOSE effect \in
    {IF result.ok
       THEN [ret |-> TRUE, escaped |-> FALSE,
             game |-> result.game,
             ui |-> updateUIState(result.game),
             calls |-> <<[fen |-> Fen(game), lastMove |-> result.san,
                          turn |-> game.turn]>>]
       ELSE [ret |-> FALSE, escaped |-> FALSE,
             game |-> game,
             ui |-> [moveHistory |-> moveHistory, captured |-> captured],
             calls |-> <<>>] :
     result \in {Move(ChessFromFen(Fen(game)), moveData)}} : TRUE

\* makeMove refusing every attempt while the coach is thinking.
makeMoveWaitsForCoach(moveData) ==
  CHOOSE effect \in
    {IF result.ok /\ ~isCoachThinking
       THEN [ret |-> TRUE, escaped |-> FALSE,
             game |-> result.game,
             ui |-> updateUIState(result.game),
             calls |-> <<[fen |-> Fen(result.game), lastMove |-> result.san,
                          turn |-> result.game.turn]>>]
       ELSE [ret |-> FALSE, escaped |-> FALSE,
             game |-> game,
             ui |-> [moveHistory |-> moveHistory, captured |-> captured],
             calls |-> <<>>] :
     result \in {Move(ChessFromFen(Fen(game)), moveData)}} : TRUE

\* result is gameCopy.move(moveData) on gameCopy = new Chess(game.fen()),
\* worked out once; result.game is gameCopy after the call.
makeMove(moveData) ==
  CHOOSE effect \in
    {IF result.ok
       THEN [ret |-> TRUE, escaped |-> FALSE,
             game |-> result.game,
             ui |-> updateUIState(result.game),
             calls |-> <<[fen |-> Fen(result.game), lastMove |-> result.san,
                          turn |-> result.game.turn]>>]
       ELSE [ret |-> FALSE,
             escaped |-> "throws" \in MoveRejections /\ ~moveInsideTry,
             game |-> game,
             ui |-> [moveHistory |-> moveHistory, captured |-> captured],
             calls |-> <<>>] :
     result \in {Move(ChessFromFen(Fen(game)), moveData)}} : TRUE

\* Each call of getCoachAdvice starts a request; those already in flight
\* are no longer for the latest move.
Issue(calls) ==
  IF calls = <<>> THEN pending
  ELSE [i \in 1 .. Len(pending) |-> [pending[i] EXCEPT !.latest = FALSE]]
       \o [i \in 1 .. Len(calls) |-> [latest |-> TRUE, current |-> TRUE]]

\* The state updates of makeMove other than the selection markers.
Commit(e) ==
  /\ e.calls = <<>> \/ Len(pending) < MaxPending
  /\ game' = e.game
  /\ moveHistory' = e.ui.moveHistory
  /\ captured' = e.ui.captured
  /\ isCoachThinking' = (IF e.calls = <<>> THEN isCoachThinking ELSE TRUE)
  /\ pending' = Issue(e.calls)
  /\ UNCHANGED <<version, advice, coach>>

\* What stood on the origin square of a move attempt.
Origin(moveData) ==
  LET piece == Get(game, moveData.from)
  IN  IF piece = NoPiece THEN "empty"
      ELSE IF piece.color = game.turn THEN "own" ELSE "enemy"

Gesture(name, moveData, e) ==
  [Op(name) EXCEPT !.origin = Origin(moveData), !.from = moveData.from,
                   !.square = moveData.to, !.ret = e.ret,
                   !.escaped = e.escaped, !.calls = e.calls]

\* onDrop whose accepted move leaves the click-to-move markers in place.
OnDropKeepsMarkers(source, target) ==
  LET moveData == [from |-> source, to |-> target, promotion |-> "q"]
  IN  \E e \in {makeMove(moveData)} :
        /\ Commit(e)
        /\ UNCHANGED <<moveFrom, optionSquares>>
        /\ lastOp' = Gesture("onDrop", moveData, e)

\* onDrop: drag and drop.
OnDrop(source, target) ==
  LET moveData == [from |-> source, to |-> target, promotion |-> "q"]
  IN  \E e \in {makeMove(moveData)} :
        /\ Commit(e)
        /\ moveFrom' = (IF e.ret THEN NoSquare ELSE moveFrom)
        /\ optionSquares' = (IF e.ret THEN NoSquares ELSE optionSquares)
        /\ lastOp' = Gesture("onDrop", moveData, e)

\* The highlight map built for a selected square.
Highlights(v, square) ==
  LET moves == Moves(game, square)
      occupied(to) ==
        IF v = 1 THEN Get(game, to) # NoPiece
        ELSE Get(game, to) # NoPiece /\ Get(game, to).color # Get(game, square).color
      ring == IF v = 1 THEN "ring .2" ELSE "ring .1"
  IN  [n \in moves \cup {square} |->
         IF n = square THEN "yellow"
         ELSE IF occupied(n) THEN ring ELSE "dot"]

\* onSquareClick, first variant.
Select1(square) ==
  LET piece == Get(game, square)
  IN  IF piece # NoPiece /\ piece.color = game.turn
        THEN /\ moveFrom' = square
             /\ optionSquares' = Highlights(1, square)
        ELSE /\ moveFrom' = NoSquare
             /\ optionSquares' = NoSquares

\* getMoveOptions followed by the caller's setMoveFrom, second variant.
Select2(square, attempted) ==
  IF Moves(game, square) # {}
    THEN /\ moveFrom' = square
         /\ optionSquares' = Highlights(2, square)
    ELSE /\ moveFrom' = (IF attempted THEN NoSquare ELSE moveFrom)
         /\ optionSquares' = NoSquares

\* onSquareClick submitting the squares the wrong way round.
OnSquareClickSwapsSquares(square) ==
  IF moveFrom = NoSquare
    THEN /\ IF version = 1 THEN Select1(square) ELSE Select2(square, FALSE)
         /\ lastOp' = [Op("onSquareClick") EXCEPT !.square = square]
         /\ UNCHANGED <<version, game, advice, isCoachThinking, moveHistory,
                        captured, pending, coach>>
    ELSE LET moveData == [from |-> square, to |-> moveFrom, promotion |-> "q"]
         IN  \E e \in {makeMove(moveData)} :
               /\ Commit(e)
               /\ lastOp' = [Gesture("onSquareClick", moveData, e) EXCEPT
                               !.from = moveFrom, !.square = square]
               /\ IF e.ret
                    THEN moveFrom' = NoSquare /\ optionSquares' = NoSquares
                    ELSE IF version = 1 THEN Select1(square)
                         ELSE Select2(square, TRUE)

\* onSquareClick of both variants.
OnSquareClick(square) ==
  IF moveFrom = NoSquare
    THEN /\ IF version = 1 THEN Select1(square) ELSE Select2(square, FALSE)
         /\ lastOp' = [Op("onSquareClick") EXCEPT !.square = square]
         /\ UNCHANGED <<version, game, advice, isCoachThinking, moveHistory,
                        captured, pending, coach>>
    ELSE LET moveData == [from |-> moveFrom, to |-> square, promotion |-> "q"]
         IN  \E e \in {makeMove(moveData)} :
               /\ Commit(e)
               /\ lastOp' = [Gesture("onSquareClick", moveData, e) EXCEPT !.square = square]
               /\ IF e.ret
                    THEN moveFrom' = NoSquare /\ optionSquares' = NoSquares
                    ELSE IF version = 1 THEN Select1(square)
                         ELSE Select2(square, TRUE)

\* Requests issued before a reset or an undo belong to an earlier game line.
Outdated == [i \in 1 .. Len(pending) |-> [pending[i] EXCEPT !.current = FALSE]]

\* reset without setAdvice(null).
ResetKeepsAdvice ==
  /\ game' = NewChess
  /\ moveHistory' = <<>>
  /\ captured' = NoCaptures
  /\ moveFrom' = NoSquare
  /\ optionSquares' = NoSquares
  /\ pending' = Outdated
  /\ lastOp' = Op("reset")
  /\ UNCHANGED <<version, advice, isCoachThinking, coach>>

\* reset / resetGame.
Reset ==
  /\ game' = NewChess
  /\ advice' = JsNull
  /\ moveHistory' = <<>>
  /\ captured' = NoCaptures
  /\ moveFrom' = NoSquare
  /\ optionSquares' = NoSquares
  /\ pending' = Outdated
  /\ lastOp' = Op("reset")
  /\ UNCHANGED <<version, isCoachThinking, coach>>

\* undo (first variant) / undoMove (second variant, which also clears advice).
undo(g) == Undo(ChessFromFen(Fen(g)))

UndoMove ==
  \E gameCopy \in {undo(game)} : \E ui \in {updateUIState(gameCopy)} :
    /\ game' = gameCopy
    /\ moveHistory' = ui.moveHistory
    /\ captured' = ui.captured
    /\ advice' = (IF version = 1 THEN advice ELSE JsNull)
    /\ moveFrom' = NoSquare
    /\ optionSquares' = NoSquares
    /\ pending' = Outdated
    /\ lastOp' = [Op("undo") EXCEPT
                    !.atStart = (game = NewChess),
                    !.prior = IF game.history = <<>> THEN <<>>
                              ELSE <<[board |-> game.history[Len(game.history)].board,
                                      turn |-> game.history[Len(game.history)].turn]>>]
    /\ UNCHANGED <<version, isCoachThinking, coach>>

\* The promise of the i-th request in flight settles: .then(setAdvice)
\* .finally(...) in the first variant, the rest of askCoach in the second.
AdviceArrives(i, outcome) ==
  LET r == getCoachAdvice(version, outcome)
      wrote == r.settled = "resolved"
      done == version = 1 \/ wrote
  IN  /\ advice' = (IF wrote THEN r.value ELSE advice)
      /\ isCoachThinking' = (IF done THEN FALSE ELSE isCoachThinking)
      /\ pending' = [j \in 1 .. (Len(pending) - 1) |->
                       IF j < i THEN pending[j] ELSE pending[j + 1]]
      /\ lastOp' = [Op("advice") EXCEPT !.stale = ~pending[i].latest,
                                        !.old = ~pending[i].current,
                                        !.wrote = wrote]
      /\ UNCHANGED <<version, game, moveHistory, captured, moveFrom,
                     optionSquares, coach>>

Drop == \E m \in MoveInputs : OnDrop(m[1], m[2])

Click == \E square \in ClickSquares : OnSquareClick(square)

Arrive == \E i \in 1 .. Len(pending) : \E o \in ServiceOutcomes : AdviceArrives(i, o)

Next == Drop \/ Click \/ Reset \/ UndoMove \/ Arrive

Spec == Init /\ [][Next]_vars

(***************************************************************************)
(* getCoachAdvice taken alone, over the reply texts of CoachOutcomes.      *)
(***************************************************************************)
Pad(n) == [i \in 1 .. n |-> WS]

RECURSIVE MemberLists(_)
MemberLists(n) ==
  IF n = 0 THEN {<<>>}
  ELSE LET shorter == MemberLists(n - 1)
       IN  shorter \cup {<<f>> : f \in FieldTokens}
           \cup {l \o <<",", f>> : l \in shorter \ {<<>>}, f \in FieldTokens}

ObjectTexts == {<<"{">> \o l \o <<"}">> : l \in MemberLists(MaxFields)}

Bodies ==
  ObjectTexts
  \cup {SubSeq(t, 1, Len(t) - 1) : t \in ObjectTexts}
  \cup {<<>>, <<"null">>, <<"Sorry">>, <<"{", ",", "}">>, <<"{", "explanationT", ",", "}">>}

CoachTexts == {Pad(l) \o b \o Pad(r) : l \in 0 .. MaxPad, r \in 0 .. MaxPad, b \in Bodies}

CoachOutcomes == {Reject, ResponseNoText} \cup {Response(t) : t \in CoachTexts}

InitCoach ==
  /\ version \in {1, 2}
  /\ game = NewChess
  /\ advice = JsNull
  /\ isCoachThinking = FALSE
  /\ moveHistory = <<>>
  /\ captured = NoCaptures
  /\ moveFrom = NoSquare
  /\ optionSquares = NoSquares
  /\ pending = <<>>
  /\ lastOp = Op("init")
  /\ coach \in {[pc |-> "called", outcome |-> o, result |-> <<>>] : o \in CoachOutcomes}

CoachSettles ==
  /\ coach.pc = "called"
  /\ coach' = [coach EXCEPT !.pc = "settled",
                            !.result = <<getCoachAdvice(version, coach.outcome)>>]
  /\ UNCHANGED appVars

NextCoach == CoachSettles

SpecCoach == InitCoach /\ [][NextCoach]_vars

(***************************************************************************)
(* Properties.                                                             *)
(***************************************************************************)
Accepted == lastOp.op \in Gestures /\ lastOp.ret

Count(seq, x) == Cardinality({i \in DOMAIN seq : seq[i] = x})

\* Replaying a list of notations: each entry is looked up among the legal
\* moves of the side to move (promotions to a queen, as the App makes them).
SanMoves(fen, san) ==
  {m \in {<<s, t>> : s \in {x \in Idx : fen.board[x].color = fen.turn}, t \in Idx} :
     /\ IsLegal(fen.board, fen.turn, m[1], m[2])
     /\ San(fen.board, fen.turn, m[1], m[2], "q") = san}

RECURSIVE Replay(_, _)
Replay(fen, sans) ==
  IF sans = <<>> THEN [ok |-> TRUE, fen |-> fen]
  ELSE LET ms == SanMoves(fen, Head(sans))
       IN  IF ms = {} THEN [ok |-> FALSE, fen |-> fen]
           ELSE LET m == CHOOSE x \in ms : TRUE
                IN  Replay([board |-> ApplyMove(fen.board, m[1], m[2], "q"),
                            turn |-> Other(fen.turn)], Tail(sans))

\* C1: after an accepted move, replaying the recorded move history from the
\* standard starting position yields exactly the current Game Position.
C1_ReplayReproducesPosition ==
  Accepted =>
    LET r == Replay(StartFen, moveHistory)
    IN  r.ok /\ r.fen = Fen(game)

\* C2: undo after N >= 1 accepted moves leaves the position that held before
\* the last of them; undo on the untouched starting position leaves it as is.
C2_UndoRestoresPrevious ==
  lastOp.op = "undo" =>
    /\ lastOp.prior # <<>> => Fen(game) = lastOp.prior[1]
    /\ lastOp.atStart => Fen(game) = StartFen /\ ~lastOp.escaped

\* C3: a move attempt from an empty square or from a piece of the side not to
\* move, and any attempt the engine rejects, returns false, lets no exception
\* escape, issues no advice request and leaves position, history, captured
\* tallies and advice as they were.
C3_RejectedAttemptChangesNothing ==
  [][(/\ lastOp'.op \in Gestures
      /\ lastOp'.origin # "none"
      /\ (lastOp'.origin \in {"empty", "enemy"} \/ ~lastOp'.ret))
     => (/\ ~lastOp'.ret
         /\ ~lastOp'.escaped
         /\ lastOp'.calls = <<>>
         /\ UNCHANGED <<game, moveHistory, captured, advice, pending,
                        isCoachThinking>>)]_vars

C3_Witness ==
  /\ lastOp.op = "onDrop"
  /\ lastOp.origin = "enemy"
  /\ ~lastOp.ret
  /\ moveHistory # <<>>

\* C4 as stated: for each side and piece type the captured tally holds the
\* starting count minus the count on the board, and that number is >= 0.
C4_TallyIsDifference ==
  \A c \in Colors : \A t \in PieceTypes :
    LET diff == standard[t] - countPieces(game.board, c)[t]
    IN  diff >= 0 /\ Count(captured[c], t) = diff

\* C4 amended: the captured tally holds the starting count minus the count
\* on the board when that difference is positive, and no entry of the type
\* otherwise (a promotion can take the count on the board above the start).
C4_TallyIsClampedDifference ==
  \A c \in Colors : \A t \in PieceTypes :
    LET diff == standard[t] - countPieces(game.board, c)[t]
    IN  Count(captured[c], t) = (IF diff > 0 THEN diff ELSE 0)

C4_Witness ==
  /\ countPieces(game.board, "w")["q"] = 2
  /\ Count(captured.w, "q") = 0
  /\ Count(captured.w, "p") = 1
  /\ Count(captured.b, "q") = 1

\* The reply text is there, is not empty, and JSON.parse rejects it.
Malformed(outcome) ==
  /\ outcome.kind = "response"
  /\ outcome.defined
  /\ outcome.text # <<>>
  /\ ~JsonParse(Trim(outcome.text)).ok

C6_StaleResponseNotDisplayed ==
  (lastOp.op = "advice" /\ lastOp.stale) => ~lastOp.wrote

\* C7: an accepted move issues exactly one advice request, carrying the
\* position after the move, the move's notation and the side now to move,
\* with history and captured tallies updated; nothing else issues a request,
\* so the requests in flight grow by one with each accepted move only.
C7_OneRequestPerAcceptedMove ==
  /\ [](IF Accepted
          THEN /\ moveHistory # <<>>
               /\ captured = updateUIState(game).captured
               /\ lastOp.calls = <<[fen |-> Fen(game),
                                    lastMove |-> moveHistory[Len(moveHistory)],
                                    turn |-> game.turn]>>
          ELSE lastOp.calls = <<>>)
  /\ [][Len(pending') = Len(pending) + Len(lastOp'.calls)
                         - (IF lastOp'.op = "advice" THEN 1 ELSE 0)]_vars

C7_Witness ==
  /\ Accepted
  /\ moveHistory = <<"e4">>
  /\ captured = NoCaptures
  /\ Len(lastOp.calls) = 1
  /\ lastOp.calls[1].lastMove = "e4"
  /\ lastOp.calls[1].turn = "b"
  /\ lastOp.calls[1].fen.board = ApplyMove(StartBoard, SqIndex["e2"], SqIndex["e4"], "q")
  /\ Len(pending) = 1

\* C8: reset leaves the standard starting position with white to move, an
\* empty history, empty captured tallies, no advice, no selected origin and
\* an empty highlight map.
C8_ResetGivesInitialState ==
  lastOp.op = "reset" =>
    /\ Fen(game) = StartFen
    /\ game.turn = "w"
    /\ moveHistory = <<>>
    /\ captured = NoCaptures
    /\ advice = JsNull
    /\ moveFrom = NoSquare
    /\ optionSquares = NoSquares

C8_Witness ==
  /\ lastOp.op = "reset"
  /\ Len(pending) = 2
  /\ isCoachThinking

\* C9: right after undo the advice is absent, no origin is selected, the
\* highlight map is empty, and the undo has issued no advice request.
C9_UndoClearsAdviceAndSelection ==
  lastOp.op = "undo" =>
    /\ advice = JsNull
    /\ moveFrom = NoSquare
    /\ optionSquares = NoSquares
    /\ lastOp.calls = <<>>

\* C10: when the service call succeeds and the reply text is empty or
\* missing, getCoachAdvice returns the fallback advice.
C10_EmptyReplyGivesFallback ==
  (/\ coach.pc = "settled"
   /\ coach.outcome.kind = "response"
   /\ (~coach.outcome.defined \/ coach.outcome.text = <<>>))
    => coach.result[1] = Resolved(Fallback)

\* C11: in every reachable state, whatever is in flight and whatever became
\* of earlier requests, reset and undo can run, and every move attempt that
\* is legal in the current position can run, is accepted and gives the
\* position the move leads to (a move that would put more than MaxPending
\* requests in flight is outside the exploration).
C11_BoardNeverBlocked ==
  /\ ENABLED Reset
  /\ ENABLED UndoMove
  /\ \A m \in MoveInputs :
       IsLegal(game.board, game.turn, SqIndex[m[1]], SqIndex[m[2]]) =>
         \E e \in {makeMove([from |-> m[1], to |-> m[2], promotion |-> "q"])} :
           /\ e.ret
           /\ e.game.board = ApplyMove(game.board, SqIndex[m[1]], SqIndex[m[2]], "q")
           /\ e.game.turn = Other(game.turn)
           /\ Len(pending) < MaxPending => ENABLED OnDrop(m[1], m[2])

C11_Witness ==
  /\ Accepted
  /\ Len(pending) = 2
  /\ isCoachThinking
  /\ moveHistory = <<"d5">>

\* C12: each accepted move appends one notation to the recorded history and
\* leaves the earlier entries as they were; undo removes exactly the last
\* entry, and leaves an empty history empty.
C12_HistoryAppendOnly ==
  [][/\ (lastOp'.op \in Gestures /\ lastOp'.ret)
          => /\ Len(moveHistory') = Len(moveHistory) + 1
             /\ SubSeq(moveHistory', 1, Len(moveHistory)) = moveHistory
     /\ lastOp'.op = "undo"
          => moveHistory' = SubSeq(moveHistory, 1, Len(moveHistory) - 1)]_vars

\* C13: with an origin selected, a click on a square that is not a legal
\* destination of the selected piece leaves the position as it is; when the
\* square holds a piece of the side to move it becomes the selected origin,
\* with the highlights of that square; otherwise no origin is selected and
\* the highlight map is empty.
C13_FriendlyClickReselects ==
  [][(/\ lastOp'.op = "onSquareClick"
      /\ moveFrom # NoSquare
      /\ lastOp'.square \notin Moves(game, moveFrom))
     => (/\ game' = game
         /\ IF Origin([from |-> lastOp'.square]) = "own"
              THEN /\ moveFrom' = lastOp'.square
                   /\ DOMAIN optionSquares' =
                        {lastOp'.square} \cup Moves(game, lastOp'.square)
              ELSE /\ moveFrom' = NoSquare
                   /\ optionSquares' = NoSquares)]_vars

\* C14: in every reachable state a selected origin holds a piece of the side
\* to move and the keys of the highlight map are that origin and the legal
\* destinations of its piece; with no origin selected the map is empty.
C14_SelectionMatchesPosition ==
  IF moveFrom = NoSquare THEN optionSquares = NoSquares
  ELSE /\ Origin([from |-> moveFrom]) = "own"
       /\ DOMAIN optionSquares = {moveFrom} \cup Moves(game, moveFrom)

C14_Witness ==
  /\ moveFrom = "c7"
  /\ DOMAIN optionSquares = {"c7", "c6", "c5"}
  /\ lastOp.op = "advice"
  /\ moveHistory = <<"e4">>

\* C15: a drag-drop and a click on a destination with an origin selected
\* hand makeMove the same move data (their origin, their destination, a
\* queen for a promotion); when the move is legal either leaves the position
\* after the move, its history and captured tallies, no selection, and one
\* advice request more in flight.  Selecting the origin first changes
\* nothing but the selection.
C15_DropAndClickAgree ==
  [][/\ (/\ lastOp'.op \in Gestures
         /\ lastOp'.from # "none"
         /\ IsLegal(game.board, game.turn, SqIndex[lastOp'.from],
                    SqIndex[lastOp'.square]))
          => \E e \in {makeMove([from |-> lastOp'.from, to |-> lastOp'.square,
                                  promotion |-> "q"])} :
               /\ lastOp'.ret
               /\ game' = e.game
               /\ moveHistory' = e.ui.moveHistory
               /\ captured' = e.ui.captured
               /\ moveFrom' = NoSquare
               /\ optionSquares' = NoSquares
               /\ lastOp'.calls = e.calls
               /\ Len(lastOp'.calls) = 1
               /\ Len(pending') = Len(pending) + 1
     /\ (/\ lastOp'.op = "onSquareClick"
         /\ Origin([from |-> lastOp'.square]) = "own"
         /\ Moves(game, lastOp'.square) # {})
          => /\ moveFrom' = lastOp'.square
             /\ (lastOp'.from # "none" => lastOp'.from = moveFrom)
             /\ UNCHANGED <<game, moveHistory, captured, pending, advice>>]_vars

C15_Witness ==
  /\ lastOp.op = "onSquareClick"
  /\ lastOp.ret
  /\ lastOp.from = "c7"
  /\ lastOp.square = "d8"
  /\ Get(game, "d8") = Piece("q", "w")
  /\ moveFrom = NoSquare

\* The evaluation tags of CoachAdvice.
Evaluations == {"good", "neutral", "bad", "mistake"}

WellFormedAdvice(v) ==
  /\ v.kind = "object"
  /\ "explanation" \in DOMAIN v.fields
  /\ "evaluation" \in DOMAIN v.fields
  /\ v.fields["evaluation"] \in Evaluations

\* C16: every value getCoachAdvice resolves with has an explanation and an
\* evaluation that is one of good, neutral, bad, mistake, whatever the reply
\* text; a reply with the two mandatory fields alone is returned as it is.
C16_AdviceIsWellFormed ==
  (coach.pc = "settled" /\ coach.result[1].settled = "resolved")
    => /\ WellFormedAdvice(coach.result[1].value)
       /\ (/\ coach.outcome.kind = "response"
           /\ coach.outcome.defined
           /\ Significant(coach.outcome.text)
                = <<"{", "explanationT", ",", "evalGoodT", "}">>)
            => coach.result[1].value
                 = JsObject([explanation |-> "Nice move!", evaluation |-> "good"])

\* C17: in every reachable state the thinking indicator is on exactly when
\* some advice request that was issued has not settled yet.
C17_ThinkingWhilePending ==
  isCoachThinking <=> (pending # <<>>)

\* C18: right after a reset or an undo no advice is displayed, and the
\* response of a request issued before the reset or undo, settling after
\* it, does not set the displayed advice.
C18_OldResponseNotDisplayed ==
  /\ lastOp.op \in {"reset", "undo"} => advice = JsNull
  /\ (lastOp.op = "advice" /\ lastOp.old) => ~lastOp.wrote

=============================================================================
